---- MODULE Spec2Model ----
(***************************************************************************)
(* Model of better-bae: the FromAttributes derive (better-bae-macros) and  *)
(* the TryFromAttributes trait (better-bae).                               *)
(*                                                                         *)
(* The derive reads a struct's fields and emits (a) try_from_attributes,   *)
(* which scans a list of attributes for the first one named attr_name, and *)
(* (b) a syn Parse impl that reads that attribute's parenthesised argument *)
(* list.  The model is the emitted code, driven by the schema (the fields  *)
(* of the struct), run on an attribute list.                               *)
(*                                                                         *)
(* Tokens are strings: identifiers, the punctuation "=" and ",", and       *)
(* "grp", a delimited group or literal, i.e. one token tree that is not    *)
(* an identifier.                                                          *)
(***************************************************************************)
EXTENDS Naturals, Sequences, FiniteSets

VARIABLES schema, attrs, pc, idx, pos, vars, tryResult, result

allvars == <<schema, attrs, pc, idx, pos, vars, tryResult, result>>

(* ------------------------------ bounds --------------------------------- *)

\* Longest generated argument list, in entries.
MaxEntries == 3
\* Longest attribute list of the lookup specification.
MaxAttrs == 2

(* ------------------------------ tokens --------------------------------- *)

Idents == {"kind", "name", "label", "zzz", "a", "b"}

IsIdent(t) == t \in Idents

None == <<>>

Some(v) == <<v>>

UnitValue == "()"

(* --------------------------- declared types ---------------------------- *)
\* A declared field type, as far as the derive looks at it: whether it is a
\* Type::Path, the ident of the path's last segment, the kind of that
\* segment's arguments, and the last generic argument.

Ty(path, last, args, lastArg) ==
    [path |-> path, last |-> last, args |-> args, lastArg |-> lastArg]

\* syn::Ident
TyIdent == Ty(TRUE, "Ident", "none", "none")
\* Option<syn::Ident>
TyOptionIdent == Ty(TRUE, "Option", "angle", "ident")
\* Option<()>
TyOptionUnit == Ty(TRUE, "Option", "angle", "unit")
\* Unit<()>, with type Unit<T> = T in scope: a path type that is not an
\* Option and whose last generic argument is ()
TyAliasUnit == Ty(TRUE, "Unit", "angle", "unit")

Field(ident, ty) == [ident |-> ident, ty |-> ty]

get_field_name(field) == field.ident

field_is_optional(field) ==
    IF ~field.ty.path THEN FALSE
    ELSE field.ty.last = "Option"

\* None, Some(<type>), or "abort" (an empty generic argument list)
inner_type(ty) ==
    IF ~ty.path THEN None
    ELSE IF ty.args # "angle" THEN None
    ELSE IF ty.lastArg = "empty" THEN Some("abort")
    ELSE IF ty.lastArg \notin {"unit", "ident"} THEN None
    ELSE Some(ty.lastArg)

field_is_switch(field) == inner_type(field.ty) = Some("unit")

(* ------------------------------ schemas -------------------------------- *)

attr_name(s) == s.attr_name

\* The schema of the crate documentation, reduced to one field of each kind.
SchemaDoc ==
    [attr_name |-> "schema",
     fields |-> << Field("kind", TyOptionUnit),
                   Field("name", TyIdent),
                   Field("label", TyOptionIdent) >>]

\* No field without an Option.
SchemaAllOptional ==
    [attr_name |-> "schema",
     fields |-> << Field("kind", TyOptionUnit),
                   Field("label", TyOptionIdent) >>]

\* A field whose last generic argument is () under a wrapper other than Option.
SchemaAlias ==
    [attr_name |-> "schema",
     fields |-> << Field("kind", TyAliasUnit),
                   Field("label", TyOptionIdent) >>]

Schemas == {SchemaDoc, SchemaAllOptional, SchemaAlias}

FieldNames(s) == {get_field_name(s.fields[k]) : k \in 1..Len(s.fields)}

FieldOf(s, key) ==
    s.fields[CHOOSE k \in 1..Len(s.fields) : get_field_name(s.fields[k]) = key]

(* ------------------------------ results -------------------------------- *)

Res(tag, inst, kind, attr, field) ==
    [tag |-> tag, inst |-> inst, kind |-> kind, attr |-> attr, field |-> field]

Ok(inst) == Res("Ok", inst, "", "", "")

OkSome(inst) == Res("OkSome", inst, "", "", "")

OkNone == Res("OkNone", <<>>, "", "", "")

Err(kind, attr, field) == Res("Err", <<>>, kind, attr, field)

NoResult == Res("none", <<>>, "", "", "")

(* ----------------------------- attributes ------------------------------ *)
\* One attribute: its path (a sequence of segments), whether its tokens are
\* one parenthesised group, and the group's content as a sequence of
\* entries, each the entry's tokens and whether a comma follows it.

Attr(path, parens, entries) ==
    [path |-> path, parens |-> parens, entries |-> entries]

Entry(toks, comma) == [toks |-> toks, comma |-> comma]

EntryTokens(e) == IF e.comma THEN e.toks \o <<",">> ELSE e.toks

RECURSIVE Flatten(_)
Flatten(es) ==
    IF es = <<>> THEN <<>>
    ELSE EntryTokens(Head(es)) \o Flatten(Tail(es))

\* The token stream inside the parentheses.
Content(attr) == Flatten(attr.entries)

\* Path::get_ident: Some(ident) for a path of one segment, else None.
get_ident(path) == IF Len(path) = 1 THEN Some(path[1]) ELSE None

\* Variant: the last path segment is compared, whatever the path's length.
AttrMatches_LastSegment(s, attr) == attr.path[Len(attr.path)] = attr_name(s)

\* Some(ident) if ident == #attr_name
AttrMatches(s, attr) == get_ident(attr.path) = Some(attr_name(s))

(* ------------------------- syn parsing primitives ---------------------- *)

Parsed(ok, p, val) == [ok |-> ok, pos |-> p, val |-> val]

\* content.parse::<syn::Ident>()
parse_Ident(toks, p) ==
    IF p <= Len(toks) /\ IsIdent(toks[p])
    THEN Parsed(TRUE, p + 1, toks[p])
    ELSE Parsed(FALSE, p, "")

\* content.parse::<syn::Token![=]>()
parse_Eq(toks, p) ==
    IF p <= Len(toks) /\ toks[p] = "="
    THEN Parsed(TRUE, p + 1, "=")
    ELSE Parsed(FALSE, p, "")

\* content.parse::<syn::Token![,]>().ok(): a failure is dropped
parse_Comma_ok(toks, p) ==
    IF p <= Len(toks) /\ toks[p] = ","
    THEN Parsed(TRUE, p + 1, ",")
    ELSE Parsed(TRUE, p, "")

\* content.parse::<proc_macro2::TokenStream>(): syn's Parse for TokenStream
\* takes every token left in the buffer and never fails.
parse_TokenStream(toks, p) == Parsed(TRUE, Len(toks) + 1, "")

\* content.parse() at the field's value type; the value fields of the
\* schemas are syn::Ident and Option<syn::Ident>, both parsed as syn::Ident.
parse_Value(field, toks, p) == parse_Ident(toks, p)

(* ------------------------ the generated Parse impl --------------------- *)

\* let mut #name = None; for every field
variable_declarations(s) == [n \in FieldNames(s) |-> None]

St(p, vs, err) == [pos |-> p, vars |-> vs, err |-> err]

\* The match on the entry key, entered after the key was read.
match_arms(s, key, toks, st) ==
    IF key \in FieldNames(s)
    THEN LET field == FieldOf(s, key) IN
         IF field_is_switch(field)
         THEN St(st.pos, [st.vars EXCEPT ![key] = Some(UnitValue)], "")
         ELSE LET eq == parse_Eq(toks, st.pos) IN
              IF ~eq.ok THEN St(st.pos, st.vars, "expected =")
              ELSE LET v == parse_Value(field, toks, eq.pos) IN
                   IF ~v.ok THEN St(eq.pos, st.vars, "expected value")
                   ELSE St(v.pos, [st.vars EXCEPT ![key] = Some(v.val)], "")
    ELSE St(parse_TokenStream(toks, st.pos).pos, st.vars, "")

\* One iteration of while !content.is_empty().
LoopBody(s, toks, st) ==
    LET id == parse_Ident(toks, st.pos) IN
    IF ~id.ok THEN St(st.pos, st.vars, "expected identifier")
    ELSE LET armed == match_arms(s, id.val, toks, St(id.pos, st.vars, "")) IN
         IF armed.err # "" THEN armed
         ELSE St(parse_Comma_ok(toks, armed.pos).pos, armed.vars, "")

content_is_empty(toks, p) == p > Len(toks)

RECURSIVE RunLoop(_, _, _)
RunLoop(s, toks, st) ==
    IF st.err # "" \/ content_is_empty(toks, st.pos) THEN st
    ELSE RunLoop(s, toks, LoopBody(s, toks, st))

\* The fields the missing-argument check covers, in declaration order.
MandatoryIndexes(s) ==
    {k \in 1..Len(s.fields) : ~field_is_optional(s.fields[k])}

\* Self { #(#set_fields)* }: an unwrapped value for a checked field, the
\* Option itself for the others.
set_fields(s, vs) ==
    [n \in FieldNames(s) |->
        IF field_is_optional(FieldOf(s, n)) THEN vs[n] ELSE vs[n][1]]

\* The unwrapping of the checked fields, then the construction of Self.
unwrap_mandatory_fields(s, vs) ==
    LET unset == {k \in MandatoryIndexes(s) :
                     vs[get_field_name(s.fields[k])] = None} IN
    IF unset # {}
    THEN LET first == CHOOSE k \in unset : \A j \in unset : k <= j IN
         Err("missing argument", attr_name(s), get_field_name(s.fields[first]))
    ELSE Ok(set_fields(s, vs))

\* syn::parse2::<Self>(attr.tokens): the whole parse of one attribute.
parse(s, attr) ==
    IF ~attr.parens THEN Err("expected parentheses", "", "")
    ELSE LET st == RunLoop(s, Content(attr), St(1, variable_declarations(s), "")) IN
         IF st.err # "" THEN Err(st.err, "", "")
         ELSE unwrap_mandatory_fields(s, st.vars)

\* Some(r).transpose()
transpose(r) == IF r.tag = "Ok" THEN OkSome(r.inst) ELSE r

\* Variant: a parse error is reported as a missing attribute too.
from_attributes_ErrAsMissing(s, tried) ==
    IF tried.tag = "OkSome" THEN Ok(tried.inst)
    ELSE Err("missing attribute", attr_name(s), "")

\* TryFromAttributes::from_attributes applied to the result of try_from_attributes.
from_attributes(s, tried) ==
    IF tried.tag = "Err" THEN tried
    ELSE IF tried.tag = "OkSome" THEN Ok(tried.inst)
    ELSE Err("missing attribute", attr_name(s), "")

(* ------------------------------ inputs --------------------------------- *)

Keys == {"kind", "name", "label", "zzz"}

Values == {"a", "b"}

\* Entry forms: a bare key, key = value, and an unknown key followed by one
\* token tree.
EntryForms ==
    {<<k>> : k \in Keys}
    \cup {<<k, "=", v>> : k \in Keys, v \in Values}
    \cup {<<"zzz", "grp">>}

Items == {Entry(f, c) : f \in EntryForms, c \in BOOLEAN}

EntryLists == UNION {[1..n -> Items] : n \in 0..MaxEntries}

OtherAttr == Attr(<<"other_random_attr">>, FALSE, <<>>)

\* One call per attribute list: a foreign attribute alone, or followed by
\* one attribute named schema.
ParseAttrLists ==
    {<<OtherAttr>>, <<OtherAttr, Attr(<<"schema">>, FALSE, <<>>)>>}
    \cup {<<OtherAttr, Attr(<<"schema">>, TRUE, es)>> : es \in EntryLists}

LookupPaths == {<<"schema">>, <<"other_random_attr">>, <<"bae", "schema">>}

LookupArgs ==
    { Attr(<<>>, FALSE, <<>>),
      Attr(<<>>, TRUE, <<>>),
      Attr(<<>>, TRUE, <<Entry(<<"kind">>, TRUE), Entry(<<"name", "=", "a">>, FALSE)>>),
      Attr(<<>>, TRUE, <<Entry(<<"name", "=", "b">>, TRUE), Entry(<<"label", "=", "a">>, TRUE)>>),
      Attr(<<>>, TRUE, <<Entry(<<"label">>, FALSE)>>) }

LookupAttrs == {Attr(p, a.parens, a.entries) : p \in LookupPaths, a \in LookupArgs}

LookupAttrLists == UNION {[1..n -> LookupAttrs] : n \in 0..MaxAttrs}

(* --------------------------- the state machine ------------------------- *)

Start ==
    /\ pc = "scan"
    /\ idx = 1
    /\ pos = 0
    /\ vars = <<>>
    /\ tryResult = NoResult
    /\ result = NoResult

Init ==
    /\ schema \in Schemas
    /\ attrs \in ParseAttrLists
    /\ Start

InitLookup ==
    /\ schema \in Schemas
    /\ attrs \in LookupAttrLists
    /\ Start

\* for attr in attrs: an attribute of another name is ignored
ScanSkip ==
    /\ pc = "scan"
    /\ idx <= Len(attrs)
    /\ ~AttrMatches(schema, attrs[idx])
    /\ idx' = idx + 1
    /\ UNCHANGED <<schema, attrs, pc, pos, vars, tryResult, result>>

\* the first attribute named attr_name is handed to syn::parse2
ScanMatch ==
    /\ pc = "scan"
    /\ idx <= Len(attrs)
    /\ AttrMatches(schema, attrs[idx])
    /\ pc' = "parse"
    /\ UNCHANGED <<schema, attrs, idx, pos, vars, tryResult, result>>

\* the loop ran out of attributes: Ok(None)
ScanEnd ==
    /\ pc = "scan"
    /\ idx > Len(attrs)
    /\ tryResult' = OkNone
    /\ pc' = "try_done"
    /\ UNCHANGED <<schema, attrs, idx, pos, vars, result>>

\* the variable declarations and syn::parenthesized!(content in input)
Parenthesized ==
    /\ pc = "parse"
    /\ IF attrs[idx].parens
       THEN /\ pc' = "loop"
            /\ pos' = 1
            /\ vars' = variable_declarations(schema)
            /\ UNCHANGED tryResult
       ELSE /\ pc' = "try_done"
            /\ tryResult' = transpose(Err("expected parentheses", "", ""))
            /\ UNCHANGED <<pos, vars>>
    /\ UNCHANGED <<schema, attrs, idx, result>>

\* one iteration of the entry loop
LoopIter ==
    /\ pc = "loop"
    /\ ~content_is_empty(Content(attrs[idx]), pos)
    /\ LET st == LoopBody(schema, Content(attrs[idx]), St(pos, vars, "")) IN
       IF st.err # ""
       THEN /\ pc' = "try_done"
            /\ tryResult' = transpose(Err(st.err, "", ""))
            /\ UNCHANGED <<pos, vars>>
       ELSE /\ pos' = st.pos
            /\ vars' = st.vars
            /\ UNCHANGED <<pc, tryResult>>
    /\ UNCHANGED <<schema, attrs, idx, result>>

\* the loop is over: the checked fields are unwrapped and Self is built
LoopExit ==
    /\ pc = "loop"
    /\ content_is_empty(Content(attrs[idx]), pos)
    /\ tryResult' = transpose(unwrap_mandatory_fields(schema, vars))
    /\ pc' = "try_done"
    /\ UNCHANGED <<schema, attrs, idx, pos, vars, result>>

\* from_attributes turns the result of try_from_attributes into its own
FromAttributes ==
    /\ pc = "try_done"
    /\ result' = from_attributes(schema, tryResult)
    /\ pc' = "done"
    /\ UNCHANGED <<schema, attrs, idx, pos, vars, tryResult>>

Next ==
    \/ ScanSkip
    \/ ScanMatch
    \/ ScanEnd
    \/ Parenthesized
    \/ LoopIter
    \/ LoopExit
    \/ FromAttributes

Spec == Init /\ [][Next]_allvars

SpecLookup == InitLookup /\ [][Next]_allvars

(* ------------------- vocabulary of the specification ------------------- *)
\* The terms the properties below are stated in, taken from the prose
\* specification rather than from the code.

\* Field kinds of the data model: Option<()> is a Switch, any other Option
\* an Optional field, everything else Mandatory.
IsOptionWrapper(ty) == ty.path /\ ty.last = "Option" /\ ty.args = "angle"

KindOf(field) ==
    IF IsOptionWrapper(field.ty) /\ field.ty.lastArg = "unit" THEN "Switch"
    ELSE IF IsOptionWrapper(field.ty) THEN "Optional"
    ELSE "Mandatory"

FieldsOfKind(s, kind) ==
    {n \in FieldNames(s) : KindOf(FieldOf(s, n)) = kind}

\* Schemas whose fields are typed Ident, Option<Ident> or Option<()>.
PlainSchema(s) ==
    \A k \in 1..Len(s.fields) :
        s.fields[k].ty \in {TyIdent, TyOptionIdent, TyOptionUnit}

\* The attribute a lookup is about: the first with the simple name.
SimpleNameIs(attr, name) == Len(attr.path) = 1 /\ attr.path[1] = name

Matching(s, as) == {k \in 1..Len(as) : SimpleNameIs(as[k], s.attr_name)}

FirstMatching(s, as) ==
    CHOOSE k \in Matching(s, as) : \A j \in Matching(s, as) : k <= j

Finished == pc \in {"try_done", "done"}

\* The lookup finished on an attribute with a parenthesised argument list.
ParsedArgs ==
    /\ Finished
    /\ Matching(schema, attrs) # {}
    /\ attrs[FirstMatching(schema, attrs)].parens

Args == attrs[FirstMatching(schema, attrs)].entries

KeyOf(e) == e.toks[1]

IsSwitchEntry(s, e) ==
    Len(e.toks) = 1 /\ KeyOf(e) \in FieldsOfKind(s, "Switch")

IsValueEntry(s, e) ==
    /\ Len(e.toks) = 3
    /\ e.toks[2] = "="
    /\ KeyOf(e) \in FieldsOfKind(s, "Mandatory") \cup FieldsOfKind(s, "Optional")

IsRecognisedEntry(s, e) == IsSwitchEntry(s, e) \/ IsValueEntry(s, e)

\* An unknown key followed by one token tree.
IsUnknownTreeEntry(s, e) ==
    Len(e.toks) = 2 /\ KeyOf(e) \notin FieldNames(s) /\ e.toks[2] = "grp"

CommaSeparated(es) == \A k \in 1..Len(es) : k < Len(es) => es[k].comma

\* A comma-separated list of entries of the grammar and tolerated unknown
\* entries.
WellFormed(s, es) ==
    /\ CommaSeparated(es)
    /\ \A k \in 1..Len(es) :
          IsRecognisedEntry(s, es[k]) \/ IsUnknownTreeEntry(s, es[k])

EntriesFor(s, es, n) ==
    {k \in 1..Len(es) : IsRecognisedEntry(s, es[k]) /\ KeyOf(es[k]) = n}

LastEntryFor(s, es, n) ==
    CHOOSE k \in EntriesFor(s, es, n) : \A j \in EntriesFor(s, es, n) : j <= k

\* The value a field of a Parsed Instance holds, as an Option.
Held(s, inst, n) ==
    IF KindOf(FieldOf(s, n)) = "Mandatory" THEN Some(inst[n]) ELSE inst[n]

IsMissingField(r, s, n) ==
    r.tag = "Err" /\ r.kind = "missing argument"
    /\ r.attr = s.attr_name /\ r.field = n

IsSyntaxError(r) == r.tag = "Err" /\ r.kind # "missing argument"

(* ------------------------------ properties ----------------------------- *)

\* C1: an entry whose key matches no field is skipped by discarding one
\* token tree, and parsing continues: in a well-formed argument list, every
\* recognised entry that comes after an unknown key with a one-token-tree
\* value is still recorded (its field is not reported missing, and is set
\* in the Parsed Instance), and the unknown entry causes no error.
C1_UnknownKeySkipped ==
    (ParsedArgs /\ PlainSchema(schema) /\ WellFormed(schema, Args)) =>
        /\ ~IsSyntaxError(tryResult)
        /\ \A i, j \in 1..Len(Args) :
              (i < j /\ IsUnknownTreeEntry(schema, Args[i])
                     /\ IsRecognisedEntry(schema, Args[j])) =>
                  /\ ~IsMissingField(tryResult, schema, KeyOf(Args[j]))
                  /\ tryResult.tag = "OkSome" =>
                        Held(schema, tryResult.inst, KeyOf(Args[j])) # None

\* C2: for a well-formed argument list the parse fails with a
\* missing-mandatory-field error (carrying the schema name and the name of a
\* missing field) if and only if some Mandatory field has no entry; when
\* every Mandatory field has an entry an instance is returned that holds a
\* value supplied for it.
C2_MissingMandatoryIff ==
    (ParsedArgs /\ PlainSchema(schema) /\ WellFormed(schema, Args)) =>
        LET missing == {n \in FieldsOfKind(schema, "Mandatory") :
                           EntriesFor(schema, Args, n) = {}} IN
        /\ (missing # {}) <=>
              (\E n \in missing : IsMissingField(tryResult, schema, n))
        /\ (missing # {}) => tryResult.tag = "Err"
        /\ (missing = {}) =>
              /\ tryResult.tag = "OkSome"
              /\ \A n \in FieldsOfKind(schema, "Mandatory") :
                    \E k \in EntriesFor(schema, Args, n) :
                        tryResult.inst[n] = Args[k].toks[3]

\* The outcomes of two parses agree: both fail, or both give the same
\* instance.
SameOutcome(r1, r2) ==
    LET ok1 == r1.tag \in {"Ok", "OkSome"}
        ok2 == r2.tag \in {"Ok", "OkSome"} IN
    /\ ok1 = ok2
    /\ ok1 => r1.inst = r2.inst

Permutations(n) ==
    {p \in [1..n -> 1..n] : \A a, b \in 1..n : p[a] = p[b] => a = b}

\* The entries in the order p, commas between them, the trailing comma kept.
Permuted(es, p) ==
    [k \in 1..Len(es) |->
        Entry(es[p[k]].toks, k < Len(es) \/ es[Len(es)].comma)]

DistinctKeys(es) ==
    \A a, b \in 1..Len(es) : KeyOf(es[a]) = KeyOf(es[b]) => a = b

\* C3: order independence: parsing any permutation of the entries of a
\* comma-separated argument list gives the same outcome (the identical
\* Parsed Instance, or failure in both cases) as parsing the list itself.
\* Stated here for the lists in which no key occurs twice.
C3_OrderIndependent ==
    (ParsedArgs /\ PlainSchema(schema) /\ WellFormed(schema, Args)
        /\ DistinctKeys(Args)) =>
        \A p \in Permutations(Len(Args)) :
            SameOutcome(tryResult,
                        parse(schema, Attr(<<"schema">>, TRUE, Permuted(Args, p))))

\* C4: last-write-wins: when a well-formed argument list holds two or more
\* key = value entries for one Mandatory or Optional field (and an entry for
\* every Mandatory field), the parse succeeds and the field holds the value
\* of the last such entry.
C4_LastWriteWins ==
    (ParsedArgs /\ PlainSchema(schema) /\ WellFormed(schema, Args)
        /\ \A n \in FieldsOfKind(schema, "Mandatory") :
              EntriesFor(schema, Args, n) # {}) =>
        \A n \in FieldsOfKind(schema, "Mandatory") \cup FieldsOfKind(schema, "Optional") :
            Cardinality(EntriesFor(schema, Args, n)) >= 2 =>
                /\ tryResult.tag = "OkSome"
                /\ Held(schema, tryResult.inst, n)
                      = Some(Args[LastEntryFor(schema, Args, n)].toks[3])

\* C5: in a successfully Parsed Instance a Switch field is absent when the
\* list has no entry for it and present when it has one bare entry, wherever
\* that entry stands; an Optional field is absent with no entry and Some(v)
\* with one key = v entry.
C5_NonMandatoryReflectEntries ==
    (ParsedArgs /\ PlainSchema(schema) /\ WellFormed(schema, Args)
        /\ tryResult.tag = "OkSome") =>
        /\ \A n \in FieldsOfKind(schema, "Switch") :
              /\ EntriesFor(schema, Args, n) = {} => tryResult.inst[n] = None
              /\ Cardinality(EntriesFor(schema, Args, n)) = 1 =>
                    tryResult.inst[n] = Some(UnitValue)
        /\ \A n \in FieldsOfKind(schema, "Optional") :
              /\ EntriesFor(schema, Args, n) = {} => tryResult.inst[n] = None
              /\ Cardinality(EntriesFor(schema, Args, n)) = 1 =>
                    tryResult.inst[n]
                        = Some(Args[LastEntryFor(schema, Args, n)].toks[3])

\* C6: try_from_attributes returns Ok(None) when no attribute has the simple
\* name schema_name, and otherwise exactly the parse result of the first
\* attribute of that name, whatever attributes follow it.
C6_FirstMatchOnly ==
    Finished =>
        tryResult =
            IF Matching(schema, attrs) = {} THEN OkNone
            ELSE transpose(parse(schema, attrs[FirstMatching(schema, attrs)]))

\* Two attributes of the name: the first fails to parse, the second would
\* parse, and the error of the first is the result.
C6_Witness ==
    /\ pc = "done"
    /\ \E a, b \in Matching(schema, attrs) :
          /\ a < b
          /\ a = FirstMatching(schema, attrs)
          /\ parse(schema, attrs[a]).tag = "Err"
          /\ parse(schema, attrs[b]).tag = "Ok"
    /\ tryResult.tag = "Err"

\* C7: from_attributes returns a missing-attribute error citing schema_name
\* exactly when try_from_attributes returns Ok(None), the same instance when
\* it returns Ok(Some(instance)), and the same error when it returns one.
C7_StrictWrapper ==
    pc = "done" =>
        /\ (tryResult = OkNone) <=>
              (result = Err("missing attribute", schema.attr_name, ""))
        /\ tryResult.tag = "OkSome" => result = Ok(tryResult.inst)
        /\ tryResult.tag = "Err" => result = tryResult

\* A list with attributes, none of the name: not found, and the strict
\* lookup has turned it into the missing-attribute error.
C7_Witness ==
    /\ pc = "done"
    /\ Len(attrs) >= 1
    /\ Matching(schema, attrs) = {}
    /\ tryResult = OkNone
    /\ result.tag = "Err"
    /\ result.kind = "missing attribute"

\* C8: two consecutive entries that are not separated by a comma make the
\* parse fail: an argument list of recognised entries in which an entry
\* other than the last has no comma after it is rejected with an error.
C8_CommaRequired ==
    (/\ ParsedArgs
     /\ PlainSchema(schema)
     /\ \A k \in 1..Len(Args) : IsRecognisedEntry(schema, Args[k])
     /\ ~CommaSeparated(Args)) =>
        tryResult.tag = "Err"

\* A Mandatory or Optional key that no = follows.
IsKeyWithoutEq(s, e) ==
    /\ Len(e.toks) = 1
    /\ KeyOf(e) \in FieldsOfKind(s, "Mandatory") \cup FieldsOfKind(s, "Optional")

\* A Switch key followed by = value.
IsSwitchWithValue(s, e) ==
    /\ Len(e.toks) = 3
    /\ e.toks[2] = "="
    /\ KeyOf(e) \in FieldsOfKind(s, "Switch")

\* C9: a matched attribute whose argument list is malformed yields an error,
\* never an instance or not-found: when it has no parenthesised argument
\* list, when a Mandatory/Optional key is not followed by =, and when a
\* Switch key is followed by = value.  Stated for the comma-separated lists
\* whose other entries are entries of the grammar or unknown keys with a
\* one-token-tree value.
C9_MalformedIsError ==
    (Finished /\ PlainSchema(schema) /\ Matching(schema, attrs) # {}) =>
        LET attr == attrs[FirstMatching(schema, attrs)]
            es == attr.entries
            Malformed(e) ==
                IsKeyWithoutEq(schema, e) \/ IsSwitchWithValue(schema, e) IN
        /\ ~attr.parens => tryResult.tag = "Err"
        /\ (/\ attr.parens
            /\ CommaSeparated(es)
            /\ \A k \in 1..Len(es) :
                  \/ IsRecognisedEntry(schema, es[k])
                  \/ IsUnknownTreeEntry(schema, es[k])
                  \/ Malformed(es[k])
            /\ \E k \in 1..Len(es) : Malformed(es[k])) =>
              tryResult.tag = "Err"

\* C10: the classification is one three-way partition: a field gets the
\* bare-key Switch arm iff its type is Option<()>, gets the key = value arm
\* and is exempt from the missing-field check iff its type is another
\* Option, and is otherwise Mandatory (key = value arm, checked); no field
\* gets the Switch arm and the missing-field check together.  Read off the
\* schema once the generated code has run on it.
C10_ThreeWayPartition ==
    Finished => \A k \in 1..Len(schema.fields) :
        LET field == schema.fields[k]
            switchArm == field_is_switch(field)
            checked == k \in MandatoryIndexes(schema) IN
        /\ switchArm <=> KindOf(field) = "Switch"
        /\ (~switchArm /\ ~checked) <=> KindOf(field) = "Optional"
        /\ (~switchArm /\ checked) <=> KindOf(field) = "Mandatory"
        /\ ~(switchArm /\ checked)

====
